---- MODULE Spec2Model ----
(***************************************************************************)
(* logtime: the daily time-log pipeline of src/logtime/logtime.py.         *)
(*                                                                         *)
(* Text is modelled as text: a line is a TLA+ string and the line pattern  *)
(* is matched character by character.  A file is the sequence of the       *)
(* pieces its text splits into at "\n".  A decimal-hours float that is a   *)
(* multiple of 0.25 is held as its number of quarter hours (4 * hours),    *)
(* and printed as Python prints the float.                                 *)
(***************************************************************************)
EXTENDS Integers, Sequences, FiniteSets, TLC

\* ------------------------------------------------------------------ bounds
MaxLines == 3
MaxRuns == 2
MaxResults == 2
MaxMinutes == 120

\* ------------------------------------------------------- program constants
EIGHT_HOURS_IN_MINS == 8 * 60

\* Python's None; no task id, description or line of the model equals it.
None == "None"

defaults ==
  [d \in {"sync", "rezie", "organization", "standup", "refinement",
          "refinement priprava", "review", "review priprava", "retro",
          "retrospektiva", "retrospektiva priprava", "planning",
          "planning priprava", "kontrola prostredi", "cop", "CoP",
          "CoP priprava", "cop priprava"} |->
     CASE d \in {"sync", "rezie", "organization"} -> "77549"
       [] d = "standup" -> "77488"
       [] d \in {"refinement", "refinement priprava"} -> "77548"
       [] d \in {"review", "review priprava", "retro", "retrospektiva",
                 "retrospektiva priprava"} -> "77489"
       [] d \in {"planning", "planning priprava"} -> "77491"
       [] d = "kontrola prostredi" -> "77546"
       [] d \in {"cop", "CoP"} -> "77422"
       [] OTHER -> "80565"]

\* ------------------------------------------------------------------ strings
Char(s, i) == SubSeq(s, i, i)

IsSpace(c) == c \in {" ", "\t"}

IsDigit(c) == c \in {"0", "1", "2", "3", "4", "5", "6", "7", "8", "9"}

DigitVal(c) ==
  CASE c = "0" -> 0 [] c = "1" -> 1 [] c = "2" -> 2 [] c = "3" -> 3
    [] c = "4" -> 4 [] c = "5" -> 5 [] c = "6" -> 6 [] c = "7" -> 7
    [] c = "8" -> 8 [] c = "9" -> 9

\* int(s) of a string of decimal digits
RECURSIVE StrToInt(_)
StrToInt(s) ==
  IF Len(s) = 0 THEN 0
  ELSE 10 * StrToInt(SubSeq(s, 1, Len(s) - 1)) + DigitVal(Char(s, Len(s)))

\* first index >= i of s that holds no white space (Len(s) + 1 when none)
RECURSIVE SkipSpaces(_, _)
SkipSpaces(s, i) ==
  IF i <= Len(s) /\ IsSpace(Char(s, i)) THEN SkipSpaces(s, i + 1) ELSE i

\* last index <= i of s that holds no white space (0 when none)
RECURSIVE SkipSpacesBack(_, _)
SkipSpacesBack(s, i) ==
  IF i >= 1 /\ IsSpace(Char(s, i)) THEN SkipSpacesBack(s, i - 1) ELSE i

\* str.strip()
strip(s) == SubSeq(s, SkipSpaces(s, 1), SkipSpacesBack(s, Len(s)))

\* s[i : i + n] is n decimal digits
AllDigits(s, i, n) ==
  /\ i + n - 1 <= Len(s)
  /\ \A k \in i .. (i + n - 1) : IsDigit(Char(s, k))

\* str.startswith
startswith(s, p) == Len(s) >= Len(p) /\ SubSeq(s, 1, Len(p)) = p

UpperCase == "ABCDEFGHIJKLMNOPQRSTUVWXYZ"
LowerCase == "abcdefghijklmnopqrstuvwxyz"

LowerChar(c) ==
  IF \E k \in 1 .. Len(UpperCase) : Char(UpperCase, k) = c
  THEN Char(LowerCase, CHOOSE k \in 1 .. Len(UpperCase) : Char(UpperCase, k) = c)
  ELSE c

\* str.lower()
RECURSIVE lower(_)
lower(s) ==
  IF Len(s) = 0 THEN "" ELSE LowerChar(Char(s, 1)) \o lower(SubSeq(s, 2, Len(s)))

\* The characters of the model's text, in code-point order.
CodePoints ==
  "\t #,-.0123456789:=ABCDEFGHIJKLMNOPQRSTUVWXYZabcdefghijklmnopqrstuvwxyz~"

ord(c) == CHOOSE k \in 1 .. Len(CodePoints) : Char(CodePoints, k) = c

\* a < b for Python strings (lexicographic by code point)
RECURSIVE StrLess(_, _)
StrLess(a, b) ==
  IF Len(b) = 0 THEN FALSE
  ELSE IF Len(a) = 0 THEN TRUE
  ELSE IF Char(a, 1) # Char(b, 1) THEN ord(Char(a, 1)) < ord(Char(b, 1))
  ELSE StrLess(SubSeq(a, 2, Len(a)), SubSeq(b, 2, Len(b)))

\* sorted(set of strings)
RECURSIVE sorted(_)
sorted(S) ==
  IF S = {} THEN <<>>
  ELSE LET m == CHOOSE x \in S : \A y \in S \ {x} : StrLess(x, y)
       IN <<m>> \o sorted(S \ {m})

\* sep.join(seq of strings)
RECURSIVE join(_, _)
join(sep, q) ==
  IF Len(q) = 0 THEN ""
  ELSE IF Len(q) = 1 THEN q[1]
  ELSE q[1] \o sep \o join(sep, Tail(q))

\* int(a / b) for b > 0: the quotient truncated towards zero
IntTrunc(a, b) == IF a >= 0 THEN a \div b ELSE -((-a) \div b)

\* str(h) of the float h = q / 4
FloatStr(q) ==
  LET a == IF q < 0 THEN -q ELSE q
      frac == CASE a % 4 = 0 -> "0" [] a % 4 = 1 -> "25"
                [] a % 4 = 2 -> "5" [] OTHER -> "75"
  IN (IF q < 0 THEN "-" ELSE "") \o ToString(a \div 4) \o "." \o frac

\* ------------------------------------------------------------- line parser
\* LINE_PATTERN = ^(\s*\d{1,2}:\d{2})\s+([0-9]{5})?\s*(.*)$
\* The number of digits (1 or 2) that \d{1,2} takes at index i so that ":"
\* follows, or 0 when the pattern cannot match there.  parse_line's result
\* has matched = FALSE where the code returns None.
HourDigits(s, i) ==
  IF AllDigits(s, i, 2) /\ Char(s, i + 2) = ":" THEN 2
  ELSE IF AllDigits(s, i, 1) /\ Char(s, i + 1) = ":" THEN 1
  ELSE 0

parse_line(line) ==
  LET p1 == SkipSpaces(line, 1)
      n == HourDigits(line, p1)
      colon == p1 + n
      sp == colon + 3
  IN IF n = 0 \/ ~AllDigits(line, colon + 1, 2)
        \/ ~(sp <= Len(line) /\ IsSpace(Char(line, sp)))
     THEN [matched |-> FALSE]
     ELSE LET p2 == SkipSpaces(line, sp)
              has_id == AllDigits(line, p2, 5)
              p3 == IF has_id THEN p2 + 5 ELSE p2
              p4 == SkipSpaces(line, p3)
          IN [matched |-> TRUE,
              time_str |-> strip(SubSeq(line, 1, colon + 2)),
              task_id |-> IF has_id THEN SubSeq(line, p2, p2 + 4) ELSE None,
              desc |-> SubSeq(line, p4, Len(line))]

\* ------------------------------------------------------------------ inputs
\* The lines a log file is made of: with and without task id, a default-
\* mapped description, "#"-marked free time, an empty description, a line
\* that does not match the pattern, and a matched line whose time is no
\* clock time.
SampleLines ==
  {"08:00 12345 a", "15:56 standup", "9:30 #lunch", "16:04 12345 #x",
   "17:00 ", "note", "25:00 b"}

RECURSIVE SeqsUpTo(_, _)
SeqsUpTo(S, n) ==
  IF n = 0 THEN {<<>>}
  ELSE LET shorter == SeqsUpTo(S, n - 1)
       IN shorter \cup {Append(q, x) : q \in {r \in shorter : Len(r) = n - 1}, x \in S}

\* The day of the log: datetime.now(LOG_TZ) - timedelta(days=days_back)
Days == {[year |-> 2026, month |-> 2, day |-> 21],
         [year |-> 2026, month |-> 11, day |-> 6]}

\* What the operator types at "Send on api? (y/n): "
Answers == {"y", "Y", " y ", "n", "yes", ""}

VARIABLES
  file_exists,    \* path.exists()
  file,           \* the log file's text, split at "\n"
  today,          \* main: today
  run,            \* which invocation of main this is
  pc,             \* main: the statement to execute next
  exception,      \* the exception main ended with, or None
  lines,          \* main: lines
  timestamps,     \* main: timestamps
  deltas,         \* main: deltas, each in seconds
  tasks_results,  \* main: tasks_results
  warnings,       \* the lines logged as "Unrecognized line format (skipping)"
  totals,         \* main: (total_delta_work, total_delta_free)
  grouped_tasks,  \* main: grouped_tasks, a dict in insertion order
  answer,         \* main: answer
  entries         \* the time entries created at the remote service

vars == <<file_exists, file, today, run, pc, exception, lines, timestamps,
          deltas, tasks_results, warnings, totals, grouped_tasks, answer,
          entries>>

\* An empty dict: its keys in insertion order, and the value of each key.
EmptyDict == [order |-> <<>>, value |-> <<>>]

\* ---------------------------------------------------------------- get_lines
get_lines(f) == SelectSeq(f, LAMBDA line : strip(line) # "")

\* ------------------------------------------------------- is_already_parsed
\* Mutant: the marker is looked for on the first line, not the last.
is_already_parsed_first(ls) ==
  IF Len(ls) = 0 THEN FALSE ELSE strip(ls[1]) = "already parsed"

is_already_parsed(ls) ==
  IF Len(ls) = 0 THEN FALSE ELSE strip(ls[Len(ls)]) = "already parsed"

\* ----------------------------------------------------------- get_timestamps
\* datetime(...) accepts the hour and minute
ValidTime(hour, minute) == hour \in 0 .. 23 /\ minute \in 0 .. 59

\* hour, minute = map(int, time_str.split(":"))
HourOf(time_str) == StrToInt(SubSeq(time_str, 1, Len(time_str) - 3))
MinuteOf(time_str) == StrToInt(SubSeq(time_str, Len(time_str) - 1, Len(time_str)))

\* The datetimes of one day differ in hour and minute only.  The loop from
\* line i on; raised is TRUE when datetime(...) raises ValueError.
RECURSIVE timestamps_loop(_, _, _)
timestamps_loop(ls, i, acc) ==
  IF i > Len(ls) THEN [raised |-> FALSE, timestamps |-> acc]
  ELSE LET parsed == parse_line(ls[i])
       IN IF ~parsed.matched THEN timestamps_loop(ls, i + 1, acc)
          ELSE LET hour == HourOf(parsed.time_str)
                   minute == MinuteOf(parsed.time_str)
               IN IF ~ValidTime(hour, minute)
                  THEN [raised |-> TRUE, timestamps |-> acc]
                  ELSE timestamps_loop(ls, i + 1,
                         Append(acc, [hour |-> hour, minute |-> minute]))

get_timestamps(ls) == timestamps_loop(ls, 1, <<>>)

\* --------------------------------------------------------------- get_deltas
\* int((j - i).total_seconds()) of two datetimes of the same day and zone
Minus(j, i) == ((j.hour * 60 + j.minute) - (i.hour * 60 + i.minute)) * 60

get_deltas(ts) ==
  IF Len(ts) > 1 THEN [k \in 1 .. (Len(ts) - 1) |-> Minus(ts[k + 1], ts[k])]
  ELSE <<>>

\* -------------------------------------------------------- get_tasks_results
\* The loop from line i (1-based; the code's i is one less) on.
RECURSIVE tasks_results_loop(_, _, _, _)
tasks_results_loop(ds, ls, i, acc) ==
  IF i > Len(ls) THEN acc
  ELSE LET parsed == parse_line(ls[i])
       IN IF ~parsed.matched
          THEN tasks_results_loop(ds, ls, i + 1,
                 [acc EXCEPT !.warnings = Append(@, ls[i])])
          ELSE IF i - 1 >= Len(ds) THEN acc
          ELSE tasks_results_loop(ds, ls, i + 1,
                 [acc EXCEPT !.results =
                    Append(@, [task_id |-> parsed.task_id,
                               delta_seconds |-> ds[i],
                               desc |-> parsed.desc])])

get_tasks_results(ds, ls) ==
  tasks_results_loop(ds, ls, 1, [results |-> <<>>, warnings |-> <<>>])

\* ------------------------------------------- minutes_to_rounded_decimal_hours
\* round(x) of x = n / d, d > 0: the nearest integer, a tie to the even one
round(n, d) ==
  LET q == n \div d
      r == n % d
  IN IF 2 * r < d THEN q
     ELSE IF 2 * r > d THEN q + 1
     ELSE IF q % 2 = 0 THEN q ELSE q + 1

\* Mutant: the quarter hours are cut off, not rounded.
minutes_to_floored_decimal_hours(total_minutes) == total_minutes \div 15

\* round(total_minutes / 60.0 * 4) / 4, as a number of quarter hours
minutes_to_rounded_decimal_hours(total_minutes) == round(total_minutes, 15)

\* -------------------------------------------------------------- group_tasks
\* The key a TaskResult is grouped under
group_key(tr) ==
  IF tr.task_id # None /\ tr.task_id # "" THEN tr.task_id \o " " \o tr.desc
  ELSE IF tr.desc # "" THEN tr.desc ELSE "#no-desc"

\* grouped.setdefault(key, entry)
setdefault(grouped, key, entry) ==
  IF key \in DOMAIN grouped.value THEN grouped
  ELSE [order |-> Append(grouped.order, key),
        value |-> grouped.value @@ (key :> entry)]

\* Mutant: a result overwrites its bucket's minutes instead of adding to them.
group_one_overwriting(grouped, tr) ==
  LET mins == IntTrunc(tr.delta_seconds, 60)
      key == group_key(tr)
      fresh == [delta |-> 0, desc |-> {},
                task_id |-> IF tr.task_id # None /\ tr.task_id # ""
                            THEN tr.task_id ELSE None]
      g == setdefault(grouped, key, fresh)
  IN [g EXCEPT !.value[key] =
        [@ EXCEPT !.delta = mins,
                  !.desc = IF tr.desc # "" THEN @ \cup {tr.desc} ELSE @]]

\* One iteration of the accumulation loop
group_one(grouped, tr) ==
  LET mins == IntTrunc(tr.delta_seconds, 60)
      key == group_key(tr)
      fresh == [delta |-> 0, desc |-> {},
                task_id |-> IF tr.task_id # None /\ tr.task_id # ""
                            THEN tr.task_id ELSE None]
      g == setdefault(grouped, key, fresh)
  IN [g EXCEPT !.value[key] =
        [@ EXCEPT !.delta = @ + mins,
                  !.desc = IF tr.desc # "" THEN @ \cup {tr.desc} ELSE @]]

RECURSIVE group_loop(_, _)
group_loop(grouped, trs) ==
  IF Len(trs) = 0 THEN grouped
  ELSE group_loop(group_one(grouped, trs[1]), Tail(trs))

\* The computed fields of one bucket
finalize(values) ==
  [delta |-> values.delta,
   desc |-> values.desc,
   task_id |-> values.task_id,
   task_total_mins |-> values.delta,
   task_total_hours |-> values.delta \div 60,
   task_total_rest |-> values.delta % 60,
   rounded_hours |-> minutes_to_rounded_decimal_hours(values.delta)]

group_tasks(trs) ==
  LET grouped == group_loop(EmptyDict, trs)
  IN [order |-> grouped.order,
      value |-> [k \in DOMAIN grouped.value |-> finalize(grouped.value[k])]]

\* ----------------------------------------------------------- apply_defaults
apply_defaults(grouped, defaults_map) ==
  [order |-> grouped.order,
   value |-> [k \in DOMAIN grouped.value |->
                IF k \in DOMAIN defaults_map
                THEN [grouped.value[k] EXCEPT !.task_id = defaults_map[k]]
                ELSE grouped.value[k]]]

\* ----------------------------------------------------------- compute_totals
RECURSIVE SumSeconds(_, _)
SumSeconds(trs, free) ==
  IF Len(trs) = 0 THEN 0
  ELSE (IF startswith(trs[1].desc, "#") = free THEN trs[1].delta_seconds ELSE 0)
       + SumSeconds(Tail(trs), free)

compute_totals(trs) ==
  [work |-> SumSeconds(trs, FALSE), free |-> SumSeconds(trs, TRUE)]

\* ------------------------------------------------------------ append_result
\* The label of one bucket's summary line
bucket_text(task, values) ==
  LET joined_desc == join(", ", sorted(values.desc))
  IN IF ~startswith(task, "#")
     THEN IF values.task_id = None \/ joined_desc = values.task_id
          THEN joined_desc
          ELSE values.task_id \o " " \o joined_desc
     ELSE IF joined_desc = task THEN joined_desc
          ELSE task \o " " \o joined_desc

bucket_line(task, values) ==
  ToString(values.task_total_mins) \o " = "
    \o ToString(values.task_total_hours) \o "h "
    \o ToString(values.task_total_rest) \o "m ~ "
    \o FloatStr(values.rounded_hours) \o "h: " \o bucket_text(task, values)

\* total_rounded_hours after the loop over the buckets, in quarter hours
RECURSIVE total_rounded_hours(_, _)
total_rounded_hours(grouped, i) ==
  IF i > Len(grouped.order) THEN 0
  ELSE (IF ~startswith(grouped.order[i], "#")
        THEN grouped.value[grouped.order[i]].rounded_hours ELSE 0)
       + total_rounded_hours(grouped, i + 1)

\* int(abs(total_rounded_hours * 60 - EIGHT_HOURS_IN_MINS))
saldo_mins(grouped) ==
  LET d == total_rounded_hours(grouped, 1) * 15 - EIGHT_HOURS_IN_MINS
  IN IF d < 0 THEN -d ELSE d

is_saldo_ge_zero(total_delta_work) ==
  IntTrunc(total_delta_work, 60) >= EIGHT_HOURS_IN_MINS

sign(total_delta_work) == IF is_saldo_ge_zero(total_delta_work) THEN "" ELSE "-"

\* The source's on-target remark, its first letter written in ASCII.
OnTarget == "working sul-nul"

remark(grouped, total_delta_work) ==
  IF saldo_mins(grouped) = 0 THEN OnTarget
  ELSE IF sign(total_delta_work) = "" THEN "working too much"
  ELSE "working too little"

hm(mins) == ToString(mins \div 60) \o "h " \o ToString(mins % 60) \o "m"

\* The text append_result writes, split at "\n"
summary(grouped, total_delta_work, total_delta_free) ==
  LET total_mins == IntTrunc(total_delta_work + total_delta_free, 60)
      work_mins == IntTrunc(total_delta_work, 60)
      free_mins == IntTrunc(total_delta_free, 60)
      sg == sign(total_delta_work)
      saldo == saldo_mins(grouped)
  IN <<"", "", "Summary:">>
     \o [i \in 1 .. Len(grouped.order) |->
           bucket_line(grouped.order[i], grouped.value[grouped.order[i]])]
     \o <<"",
          "total: " \o hm(total_mins) \o " (" \o ToString(total_mins) \o ")",
          "total work: " \o hm(work_mins) \o " (" \o ToString(work_mins) \o ")",
          "total work rounded hours: "
            \o FloatStr(total_rounded_hours(grouped, 1)),
          "total free:  " \o hm(free_mins) \o " (" \o ToString(free_mins) \o ")",
          "saldo: " \o sg \o hm(saldo) \o " (" \o sg \o ToString(saldo) \o ")",
          remark(grouped, total_delta_work),
          "already parsed">>

\* fh.write(text) on a file opened for append
write(f, pieces) ==
  IF Len(f) = 0 THEN pieces
  ELSE SubSeq(f, 1, Len(f) - 1) \o <<f[Len(f)] \o pieces[1]>> \o Tail(pieces)

append_result(f, grouped, total_delta_work, total_delta_free) ==
  write(f, summary(grouped, total_delta_work, total_delta_free))

\* -------------------------------------------------------- send_time_entries
Pad2(n) == IF n < 10 THEN "0" \o ToString(n) ELSE ToString(n)

\* date.strftime("%Y-%m-%d")
strftime(date) ==
  ToString(date.year) \o "-" \o Pad2(date.month) \o "-" \o Pad2(date.day)

\* Mutant: a bucket with a task id is sent whatever its hours.
is_sent_any_hours(grouped_task) ==
  /\ grouped_task.task_id # None
  /\ grouped_task.task_id # ""

\* The bucket is sent
is_sent(grouped_task) ==
  /\ grouped_task.task_id # None
  /\ grouped_task.task_id # ""
  /\ grouped_task.rounded_hours > 0

time_entry(grouped_task, date) ==
  [issue_id |-> grouped_task.task_id,
   spent_on |-> strftime(date),
   hours |-> grouped_task.rounded_hours,
   comments |-> join(", ", sorted(grouped_task.desc))]

\* The entries created from bucket i on, in order
RECURSIVE send_loop(_, _, _)
send_loop(grouped, i, date) ==
  IF i > Len(grouped.order) THEN <<>>
  ELSE (IF is_sent(grouped.value[grouped.order[i]])
        THEN <<time_entry(grouped.value[grouped.order[i]], date)>> ELSE <<>>)
       \o send_loop(grouped, i + 1, date)

send_time_entries(grouped, date) == send_loop(grouped, 1, date)

\* answer.strip().lower() != "y"
declined(ans) == lower(strip(ans)) # "y"

\* ------------------------------------------------------------------- main
NoTotals == [work |-> 0, free |-> 0]

\* main's local variables before it has assigned them
LocalsCleared ==
  /\ lines = <<>>
  /\ timestamps = <<>>
  /\ deltas = <<>>
  /\ tasks_results = <<>>
  /\ warnings = <<>>
  /\ totals = NoTotals
  /\ grouped_tasks = EmptyDict
  /\ answer = None

Init ==
  /\ file_exists \in BOOLEAN
  /\ file \in IF file_exists THEN SeqsUpTo(SampleLines, MaxLines) ELSE {<<>>}
  /\ today \in Days
  /\ run = 1
  /\ pc = "get_lines"
  /\ exception = None
  /\ entries = <<>>
  /\ LocalsCleared

\* lines = get_lines(path)
GetLines ==
  /\ pc = "get_lines"
  /\ IF ~file_exists
     THEN /\ pc' = "raised"
          /\ exception' = "FileNotFoundError"
          /\ lines' = lines
     ELSE /\ pc' = "is_already_parsed"
          /\ lines' = get_lines(file)
          /\ exception' = exception
  /\ UNCHANGED <<file_exists, file, today, run, timestamps, deltas,
                 tasks_results, warnings, totals, grouped_tasks, answer, entries>>

\* if is_already_parsed(lines): return
IsAlreadyParsed ==
  /\ pc = "is_already_parsed"
  /\ pc' = IF is_already_parsed(lines) THEN "done" ELSE "get_timestamps"
  /\ UNCHANGED <<file_exists, file, today, run, exception, lines, timestamps,
                 deltas, tasks_results, warnings, totals, grouped_tasks,
                 answer, entries>>

\* timestamps = get_timestamps(today, lines)
GetTimestamps ==
  /\ pc = "get_timestamps"
  /\ LET r == get_timestamps(lines)
     IN IF r.raised
        THEN /\ pc' = "raised"
             /\ exception' = "ValueError"
             /\ timestamps' = timestamps
        ELSE /\ pc' = "get_deltas"
             /\ timestamps' = r.timestamps
             /\ exception' = exception
  /\ UNCHANGED <<file_exists, file, today, run, lines, deltas, tasks_results,
                 warnings, totals, grouped_tasks, answer, entries>>

\* deltas = get_deltas(timestamps)
GetDeltas ==
  /\ pc = "get_deltas"
  /\ deltas' = get_deltas(timestamps)
  /\ pc' = "get_tasks_results"
  /\ UNCHANGED <<file_exists, file, today, run, exception, lines, timestamps,
                 tasks_results, warnings, totals, grouped_tasks, answer, entries>>

\* tasks_results = get_tasks_results(deltas, lines)
GetTasksResults ==
  /\ pc = "get_tasks_results"
  /\ LET r == get_tasks_results(deltas, lines)
     IN /\ tasks_results' = r.results
        /\ warnings' = r.warnings
  /\ pc' = "compute_totals"
  /\ UNCHANGED <<file_exists, file, today, run, exception, lines, timestamps,
                 deltas, totals, grouped_tasks, answer, entries>>

\* total_delta_work, total_delta_free = compute_totals(tasks_results)
ComputeTotals ==
  /\ pc = "compute_totals"
  /\ totals' = compute_totals(tasks_results)
  /\ pc' = "group_tasks"
  /\ UNCHANGED <<file_exists, file, today, run, exception, lines, timestamps,
                 deltas, tasks_results, warnings, grouped_tasks, answer, entries>>

\* grouped_tasks = group_tasks(tasks_results)
GroupTasks ==
  /\ pc = "group_tasks"
  /\ grouped_tasks' = group_tasks(tasks_results)
  /\ pc' = "apply_defaults"
  /\ UNCHANGED <<file_exists, file, today, run, exception, lines, timestamps,
                 deltas, tasks_results, warnings, totals, answer, entries>>

\* apply_defaults(grouped_tasks, defaults)
ApplyDefaults ==
  /\ pc = "apply_defaults"
  /\ grouped_tasks' = apply_defaults(grouped_tasks, defaults)
  /\ pc' = "append_result"
  /\ UNCHANGED <<file_exists, file, today, run, exception, lines, timestamps,
                 deltas, tasks_results, warnings, totals, answer, entries>>

\* append_result(path, grouped_tasks, total_delta_work, total_delta_free)
AppendResult ==
  /\ pc = "append_result"
  /\ file' = append_result(file, grouped_tasks, totals.work, totals.free)
  /\ pc' = "input"
  /\ UNCHANGED <<file_exists, today, run, exception, lines, timestamps, deltas,
                 tasks_results, warnings, totals, grouped_tasks, answer, entries>>

\* answer = input("Send on api? (y/n): "); return when it is declined
Input ==
  /\ pc = "input"
  /\ \E typed \in Answers :
       /\ answer' = typed
       /\ pc' = IF declined(typed) THEN "done" ELSE "send_time_entries"
  /\ UNCHANGED <<file_exists, file, today, run, exception, lines, timestamps,
                 deltas, tasks_results, warnings, totals, grouped_tasks, entries>>

\* send_time_entries(grouped_tasks, redmine, today)
SendTimeEntries ==
  /\ pc = "send_time_entries"
  /\ entries' = entries \o send_time_entries(grouped_tasks, today)
  /\ pc' = "done"
  /\ UNCHANGED <<file_exists, file, today, run, exception, lines, timestamps,
                 deltas, tasks_results, warnings, totals, grouped_tasks, answer>>

\* The tool is invoked again on the same day's file.
StartRun ==
  /\ pc \in {"done", "raised"}
  /\ run < MaxRuns
  /\ run' = run + 1
  /\ pc' = "get_lines"
  /\ exception' = None
  /\ lines' = <<>>
  /\ timestamps' = <<>>
  /\ deltas' = <<>>
  /\ tasks_results' = <<>>
  /\ warnings' = <<>>
  /\ totals' = NoTotals
  /\ grouped_tasks' = EmptyDict
  /\ answer' = None
  /\ UNCHANGED <<file_exists, file, today, entries>>

Next ==
  \/ GetLines
  \/ IsAlreadyParsed
  \/ GetTimestamps
  \/ GetDeltas
  \/ GetTasksResults
  \/ ComputeTotals
  \/ GroupTasks
  \/ ApplyDefaults
  \/ AppendResult
  \/ Input
  \/ SendTimeEntries
  \/ StartRun

Spec == Init /\ [][Next]_vars

\* ------------------------------------------- the aggregation on its own
\* compute_totals and group_tasks applied to any list of TaskResults, as
\* the tests apply the functions: whole and broken minutes, negative
\* durations, every combination of task id and description, and one-result
\* lists of every whole number of minutes up to MaxMinutes.
SampleTaskIds == {None, "12345"}
SampleDeltas == {-90, 59, 3570, 28560}
SampleDescs == {"", "a", "#x"}

SampleResults ==
  [task_id : SampleTaskIds, delta_seconds : SampleDeltas, desc : SampleDescs]

InitResults ==
  /\ file_exists = TRUE
  /\ file = <<>>
  /\ today \in Days
  /\ run = 1
  /\ pc = "compute_totals"
  /\ exception = None
  /\ entries = <<>>
  /\ lines = <<>>
  /\ timestamps = <<>>
  /\ deltas = <<>>
  /\ warnings = <<>>
  /\ totals = NoTotals
  /\ grouped_tasks = EmptyDict
  /\ answer = None
  /\ tasks_results \in
       SeqsUpTo(SampleResults, MaxResults)
       \cup {<<[task_id |-> "12345", delta_seconds |-> 60 * m, desc |-> "a"]>> :
               m \in 0 .. MaxMinutes}

NextResults ==
  \/ ComputeTotals
  \/ GroupTasks

SpecResults == InitResults /\ [][NextResults]_vars

\* ------------------------------------------------------------------ claims
\* The results of tasks_results, as a set of indices
Results == 1 .. Len(tasks_results)

\* The buckets of grouped_tasks
Buckets == DOMAIN grouped_tasks.value

\* The matched lines of main's lines, in line order
MatchedLines == SelectSeq(lines, LAMBDA line : parse_line(line).matched)

\* The clock time a matched line starts with
TimeOf(line) ==
  [hour |-> HourOf(parse_line(line).time_str),
   minute |-> MinuteOf(parse_line(line).time_str)]

\* C1 as the claim states it: one TaskResult for each matched line but the
\* last, in line order, with that line's task id and description and the
\* time from its timestamp to the next matched line's.
ExpectedResults ==
  [k \in 1 .. (IF Len(MatchedLines) = 0 THEN 0 ELSE Len(MatchedLines) - 1) |->
     [task_id |-> parse_line(MatchedLines[k]).task_id,
      delta_seconds |-> Minus(TimeOf(MatchedLines[k + 1]), TimeOf(MatchedLines[k])),
      desc |-> parse_line(MatchedLines[k]).desc]]

\* C1 (as claimed): for every sequence of lines, non-matching ones included,
\* get_tasks_results emits exactly one TaskResult per matched line except the
\* last, each with its own line's fields and the time to the next matched line.
C1_Original ==
  pc = "compute_totals" => tasks_results = ExpectedResults

\* The file's last non-blank line is exactly "already parsed".
HasMarker(f) ==
  \E i \in 1 .. Len(f) :
    /\ f[i] = "already parsed"
    /\ \A j \in (i + 1) .. Len(f) : strip(f[j]) = ""

\* C2: when a run completes append_result the file's last non-empty line is
\* "already parsed"; from then on the file never changes, and every run begun
\* on the marked file goes from reading the lines straight to its end, with
\* no parsing step and no time entry created.
C2_IdempotenceGuard ==
  [][/\ (pc = "append_result" /\ pc' # "append_result") => HasMarker(file')
     /\ HasMarker(file) => file' = file
     /\ (HasMarker(file) /\ pc \in {"get_lines", "is_already_parsed"}) =>
          /\ pc' \in {"get_lines", "is_already_parsed", "done"}
          /\ entries' = entries]_vars

\* A later run has ended on a file the first run marked.
C2_Witness == run >= 2 /\ pc = "done" /\ HasMarker(file) /\ lines # <<>>

\* The entries the claim expects of a sending run: one for each bucket with a
\* task id and rounded hours above 0, in bucket order, with the bucket's task
\* id, the log's date and the bucket's rounded hours.
RECURSIVE ExpectedEntries(_)
ExpectedEntries(i) ==
  IF i > Len(grouped_tasks.order) THEN <<>>
  ELSE LET b == grouped_tasks.value[grouped_tasks.order[i]]
       IN (IF b.task_id # None /\ b.rounded_hours > 0
           THEN <<[issue_id |-> b.task_id,
                   spent_on |-> strftime(today),
                   hours |-> b.rounded_hours]>>
           ELSE <<>>) \o ExpectedEntries(i + 1)

\* An entry without its comment
Sent(e) == [issue_id |-> e.issue_id, spent_on |-> e.spent_on, hours |-> e.hours]

\* The entries created since the run began, given those before the step
Created(before, after) ==
  [k \in 1 .. (Len(after) - Len(before)) |-> Sent(after[Len(before) + k])]

\* C3 (as claimed): a run creates no entry when the file was already parsed or
\* the answer is anything other than "y", and otherwise exactly the expected
\* entries.
C3_Original ==
  [][/\ Len(entries') >= Len(entries)
     /\ SubSeq(entries', 1, Len(entries)) = entries
     /\ IF pc' = "done" /\ pc # "done"
        THEN Created(entries, entries') =
               IF is_already_parsed(lines') \/ answer' # "y"
               THEN <<>> ELSE ExpectedEntries(1)
        ELSE entries' = entries]_vars

\* C3 (amended): a run creates no entry when the file was already parsed or
\* the answer, stripped of surrounding white space and lower-cased, is not
\* "y", and otherwise exactly the expected entries.
C3_EntriesCreated ==
  [][/\ Len(entries') >= Len(entries)
     /\ SubSeq(entries', 1, Len(entries)) = entries
     /\ IF pc' = "done" /\ pc # "done"
        THEN Created(entries, entries') =
               IF is_already_parsed(lines') \/ lower(strip(answer')) # "y"
               THEN <<>> ELSE ExpectedEntries(1)
        ELSE entries' = entries]_vars

\* A run answered "Y" has sent some buckets and held back another.
C3_Witness ==
  /\ pc = "done"
  /\ answer = "Y"
  /\ Len(entries) >= 1
  /\ Len(entries) < Len(grouped_tasks.order)

\* The rounded work minutes of the summary: the rounded hours of the buckets
\* whose key does not start with "#"
RoundedWorkMins ==
  LET RECURSIVE Sum(_)
      Sum(S) == IF S = {} THEN 0
                ELSE LET k == CHOOSE x \in S : TRUE
                     IN grouped_tasks.value[k].rounded_hours * 15 + Sum(S \ {k})
  IN Sum({k \in Buckets : ~startswith(k, "#")})

\* The saldo line and the closing remark of the summary just appended
SaldoLine == file[Len(file) - 2]
RemarkLine == file[Len(file) - 1]

\* C4 (as claimed): the saldo is written with a minus sign exactly when the
\* rounded work sum is below 480 minutes, and the closing remark is the
\* on-target one, "working too much" or "working too little" exactly when
\* that sum equals, exceeds or is below 480.
C4_Original ==
  pc = "input" =>
    /\ startswith(SaldoLine, "saldo: -") <=> RoundedWorkMins < EIGHT_HOURS_IN_MINS
    /\ RemarkLine = OnTarget <=> RoundedWorkMins = EIGHT_HOURS_IN_MINS
    /\ RemarkLine = "working too much" <=> RoundedWorkMins > EIGHT_HOURS_IN_MINS
    /\ RemarkLine = "working too little" <=> RoundedWorkMins < EIGHT_HOURS_IN_MINS

\* C5 (as claimed): whatever lines an existing, not yet processed file holds,
\* the run skips the offending ones and never ends with an exception.
C5_Original == file_exists => pc # "raised"

\* C6: every bucket's rounded hours are minutes_to_rounded_decimal_hours of
\* its total minutes; for total minutes m >= 0 that is, in quarter hours, the
\* integer nearest to m / 15, which is (m + 7) div 15 and never a tie; 0, 15,
\* 30, 45 and 60 minutes give 0.0, 0.25, 0.5, 0.75 and 1.0 hours, 7 gives 0.0
\* and 8 gives 0.25.
C6_QuarterRounding ==
  pc = "apply_defaults" =>
    \A k \in Buckets :
      LET m == grouped_tasks.value[k].task_total_mins
          q == grouped_tasks.value[k].rounded_hours
      IN m >= 0 =>
           /\ q = (m + 7) \div 15
           /\ 2 * (15 * q - m) < 15 /\ 2 * (m - 15 * q) < 15
           /\ m % 15 = 0 => 15 * q = m
           /\ m = 7 => q = 0
           /\ m = 8 => q = 1

\* A bucket of 8 minutes has been rounded up to a quarter hour.
C6_Witness ==
  /\ pc = "apply_defaults"
  /\ \E k \in Buckets :
       /\ grouped_tasks.value[k].task_total_mins = 8
       /\ grouped_tasks.value[k].rounded_hours = 1

\* C7 (as claimed): every TaskResult has delta_seconds >= 0, whatever the
\* order of the times in the file, and so has every bucket total and the work
\* and free totals.
C7_Original ==
  /\ \A i \in Results : tasks_results[i].delta_seconds >= 0
  /\ \A k \in Buckets : grouped_tasks.value[k].delta >= 0
  /\ totals.work >= 0 /\ totals.free >= 0

\* C8 (as claimed): get_tasks_results logs one "unrecognized line" diagnostic
\* for every non-matching line of its input, wherever the line sits.
C8_Original ==
  pc = "compute_totals" =>
    Len(warnings) = Len(SelectSeq(lines, LAMBDA line : ~parse_line(line).matched))

\* The key the claim gives a TaskResult
ClaimedKey(tr) ==
  IF tr.task_id # None THEN tr.task_id \o " " \o tr.desc
  ELSE IF tr.desc # "" THEN tr.desc
  ELSE "#no-desc"

\* The whole minutes of the results i of S
RECURSIVE WholeMinutes(_)
WholeMinutes(S) ==
  IF S = {} THEN 0
  ELSE LET i == CHOOSE x \in S : TRUE
       IN IntTrunc(tasks_results[i].delta_seconds, 60) + WholeMinutes(S \ {i})

RECURSIVE BucketMinutes(_)
BucketMinutes(S) ==
  IF S = {} THEN 0
  ELSE LET k == CHOOSE x \in S : TRUE
       IN grouped_tasks.value[k].task_total_mins + BucketMinutes(S \ {k})

\* C9: group_tasks puts every result in exactly one bucket, the one of its
\* key; a bucket's total minutes are the whole minutes of the results under
\* its key; hours * 60 + remainder is the total with 0 <= remainder < 60; and
\* the buckets' totals add up to the whole minutes of all results.
C9_Grouping ==
  pc = "apply_defaults" =>
    /\ Buckets = {ClaimedKey(tasks_results[i]) : i \in Results}
    /\ Len(grouped_tasks.order) = Cardinality(Buckets)
    /\ {grouped_tasks.order[n] : n \in 1 .. Len(grouped_tasks.order)} = Buckets
    /\ \A k \in Buckets :
         LET v == grouped_tasks.value[k]
         IN /\ v.task_total_mins =
                 WholeMinutes({i \in Results : ClaimedKey(tasks_results[i]) = k})
            /\ v.task_total_hours * 60 + v.task_total_rest = v.task_total_mins
            /\ v.task_total_rest \in 0 .. 59
    /\ BucketMinutes(Buckets) = WholeMinutes(Results)

\* Results of 59 and of 3570 seconds have been added up in one bucket as
\* 0 + 59 whole minutes.
C9_Witness ==
  /\ pc = "apply_defaults"
  /\ Len(tasks_results) > Cardinality(Buckets)
  /\ \E i, j \in Results :
       /\ tasks_results[i].delta_seconds = 59
       /\ tasks_results[j].delta_seconds = 3570
  /\ \E k \in Buckets : grouped_tasks.value[k].task_total_mins = 59

\* C10 (as claimed): a result is counted in the rounded work hours of the
\* summary (its bucket's key does not start with "#") exactly when
\* compute_totals counted it as work (its description does not start with
\* "#").
C10_Original ==
  pc = "append_result" =>
    \A i \in Results :
      LET key == group_key(tasks_results[i])
      IN /\ key \in Buckets
         /\ startswith(key, "#") <=> startswith(tasks_results[i].desc, "#")

====
